---- MODULE Spec2Model ----
(***************************************************************************)
(* Access-control orchestration of the smart doorbell (smart_doorbell.py): *)
(* the camera-loop thread with its grant/deny handlers, the remote door    *)
(* control endpoint with decrypt_request (security.py), and the call       *)
(* session; the door-state synchronizer thread of APIClient                *)
(* (api_client.py); and the main loop of DeviceService (device_service.py) *)
(* with its door-state-gated grant; the frame queue and the publisher      *)
(* worker of APIClient; Recognizer.recognize and the gallery refresh       *)
(* (recognizer.py, res_recognizer.py).  Time is in whole seconds.  Every   *)
(* step                                                                    *)
(* of a thread that reads or writes a field shared with another thread is  *)
(* a separate action, so that the threads interleave as the interpreter    *)
(* lets them.                                                              *)
(***************************************************************************)
EXTENDS Integers, FiniteSets, Sequences, TLC

\* ---------------------------------------------------------------- bounds
\* time.time() at construction, in seconds; far larger than every window
BootTime == 20
\* the clock runs from BootTime to BootTime + MaxTime
MaxTime == 9
\* the clock of the door-state synchronizer runs to BootTime + MaxSyncTime
MaxSyncTime == 24
\* frames handed to queue_frame
MaxFrames == 12
\* frames waiting in the queue when streaming is stopped and started
Backlog == 6
\* the publisher's clock runs from BootTime to BootTime + MaxStreamTime
MaxStreamTime == 6
\* cosine similarities and thresholds are whole numbers of tenths,
\* similarities from -1 to MaxSim
MaxSim == 2
\* faces the detector returns for a frame
MaxFaces == 2
\* images in the device's folder of the bucket
MaxGallery == 2
\* publisher threads start_streaming creates
MaxWorkers == 2

\* ------------------------------------------------------ program constants
recognition_cooldown == 3
button_debounce_time == 2
DoorOpenDwell == 5
DeniedHold == 3
FernetTTL == 10
ReplayWindow == 10
check_interval == 3
max_failures == 5
PausedInterval == 10
ProcessingCooldown == 2
QueueCapacity == 10
StreamMaxFailures == 5
StreamPause == 5
JoinTimeout == 2

Horizon == BootTime + MaxTime

Abs(x) == IF x < 0 THEN -x ELSE x

\* ------------------------------------------------------------ ciphertexts
\* A ciphertext is a Fernet token: authentic (made with the shared key) or
\* not, the time the token was made, and the plaintext it carries.  kind is
\* the shape of the plaintext: "ok" is a JSON object with a numeric
\* timestamp and an action; the others are the malformed shapes.
NoData == [id |-> "nodata"]

Tok(id, authentic, issued, kind, ts, action) ==
    [id |-> id, authentic |-> authentic, issued |-> issued, kind |-> kind,
     ts |-> ts, action |-> action]

UnlockTok   == Tok("unlock", TRUE, BootTime + 2, "ok", BootTime + 2, "unlock")
LockTok     == Tok("lock", TRUE, BootTime - 4, "ok", BootTime - 4, "lock")
CallTok     == Tok("call", TRUE, BootTime, "ok", BootTime, "call")
StaleTok    == Tok("stale", TRUE, BootTime, "ok", BootTime - 11, "unlock")
ForgedTok   == Tok("forged", FALSE, BootTime, "ok", BootTime, "unlock")
NotJsonTok  == Tok("notjson", TRUE, BootTime, "notjson", 0, "none")
NoTsTok     == Tok("no_ts", TRUE, BootTime, "no_ts", 0, "unlock")
BadTsTok    == Tok("bad_ts", TRUE, BootTime, "bad_ts", 0, "unlock")
NoActionTok == Tok("no_action", TRUE, BootTime, "no_action", BootTime, "none")

Ciphertexts == {UnlockTok, LockTok, CallTok, StaleTok, ForgedTok,
                NotJsonTok, NoTsTok, BadTsTok, NoActionTok}
Bodies == Ciphertexts \cup {NoData}

\* the commands door_control can apply
DoorTokens == {UnlockTok, LockTok}

\* ------------------------------------------------------------------ state
VARIABLES
    now,                    \* time.time()
    latest_frame,           \* Camera.latest_frame: what the newest frame shows
    pc,                     \* position of the camera-loop thread
    processing,             \* DeviceServiceLocal.processing
    last_recognition_time,  \* DeviceServiceLocal.last_recognition_time
    current_time,           \* loop(): current_time of the cycle in flight
    wake,                   \* end of the time.sleep the loop thread is in
    sent,                   \* notifications sent in the cycle in flight
    local_door_state,       \* DeviceServiceLocal.local_door_state
    relay,                  \* Relay output
    call_in_progress,       \* DeviceServiceLocal.call_in_progress
    last_button_press,      \* DeviceServiceLocal.last_button_press
    apipc,                  \* position of a /api/call or call_owner thread
    req,                    \* the door_control request being served
    inbox,                  \* the request bodies that reach door_control
    cycles,                 \* history: cycles started minus cycles finished
    lastCompletedAt,        \* history: when the last cycle finished
    consumed,               \* history: ciphertexts door_control has applied
    lastWriter,             \* history: who wrote local_door_state last
    attemptAge,             \* history: seconds since linphone.call() was last
                            \* invoked, counted up to the debounce time
    door_state,             \* APIClient.door_state
    door_state_lock,        \* APIClient.door_state_lock: the thread holding it
    mon,                    \* the _monitor_door_state thread: its position,
                            \* its locals and the end of its sleep
    failStreak,             \* history: polls that timed out or raised since
                            \* the last poll that was answered 200
    ds,                     \* DeviceService (device_service.py): the main
                            \* loop's position and the fields it owns
    stream_active,          \* APIClient.stream_active
    frame_queue,            \* APIClient.frame_queue: the frames queued, each
                            \* named by its capture number, oldest first
    stream_thread,          \* APIClient.stream_thread: the thread created
                            \* last, 0 for the unstarted one of __init__
    workers,                \* the _stream_frames threads: position, the
                            \* locals failures and frame_bytes, end of sleep
    ctl,                    \* the thread calling start_streaming and
                            \* stop_streaming: its position, end of the join
    prod,                   \* the thread calling queue_frame: its position
                            \* and the capture number of its frame
    published,              \* history: the frame answered 200 last
    impl,                   \* which Recognizer class is in use: the one of
                            \* recognizer.py or the one of res_recognizer.py
    threshold,              \* Recognizer.threshold
    embeddings,             \* Recognizer.embeddings: the gallery entries,
                            \* each named by the number of its image
    frame,                  \* the frame handed to recognize: what the
                            \* detector, the crop and the embedder make of it
    result,                 \* what recognize returned, or that it raised
    seen,                   \* history: the gallery recognize compared with
    refresh,                \* the thread rebuilding the gallery: position
                            \* and the image it loads next
    caller,                 \* a thread calling an APIClient request method:
                            \* the method, its argument, the backend's
                            \* answer and what the method gave back
    cam,                    \* the capture_loop thread of camera.py: its
                            \* position and the frame it holds
    frame_lock,             \* Camera.frame_lock: the thread holding it
    slot,                   \* Camera.latest_frame as the capture number of
                            \* the frame in it, 0 for None
    grabbed,                \* history: frames capture_loop has got from the
                            \* sensor and converted
    reader                  \* loop() as a caller of Camera.read: position,
                            \* the frame read, the one read before it, and
                            \* whether a cycle has just finished

vars == <<now, latest_frame, pc, processing, last_recognition_time,
          current_time, wake, sent, local_door_state, relay,
          call_in_progress, last_button_press, apipc, req, inbox, cycles,
          lastCompletedAt, consumed, lastWriter, attemptAge, door_state,
          door_state_lock, mon, failStreak, ds, stream_active, frame_queue,
          stream_thread, workers, ctl, prod, published, impl, threshold,
          embeddings, frame, result, seen, refresh, caller, cam,
          frame_lock, slot, grabbed, reader>>

loopVars == <<pc, processing, last_recognition_time, current_time, wake,
              sent, cycles, lastCompletedAt>>
cycleVars == <<processing, last_recognition_time, current_time, wake, sent,
               cycles, lastCompletedAt>>
callVars == <<call_in_progress, last_button_press, attemptAge>>
doorVars == <<local_door_state, relay, lastWriter>>
reqVars  == <<req, inbox, consumed>>
syncVars == <<door_state, door_state_lock, mon, failStreak>>
streamVars == <<stream_active, frame_queue, stream_thread, workers, ctl,
                prod, published>>
recogVars == <<impl, threshold, embeddings, frame, result, seen, refresh>>
cameraVars == <<cam, frame_lock, slot, grabbed, reader>>
auxVars == <<streamVars, recogVars, caller, cameraVars>>

None == "None"
IdleReq == [pc |-> "idle", body |-> NoData, code |-> 0, status |-> "none"]

\* a poll answer: the status and, for a 200, the state in the body (None
\* when the body has no state key); a timeout; any other exception
NoAnswer == [kind |-> "none", state |-> None]
Answers ==
    [kind : {"200"}, state : {"locked", "unlocked", None}]
    \cup [kind : {"non200", "timeout", "error"}, state : {None}]

\* what the backend makes of a request: a 200 whose body is JSON with a
\* url, JSON without one or not JSON at all; another status; a timeout; a
\* connection error
Replies ==
    [kind : {"200"}, body : {"url", "no_url", "not_json"}]
    \cup [kind : {"non200", "timeout", "error"}, body : {None}]

\* no request method has been called yet
NoCall ==
    [pc |-> "idle", fn |-> None, state |-> None,
     answer |-> [kind |-> "none", body |-> None], result |-> None]

\* the monitor thread as start_door_monitoring starts it
MonitorStarted ==
    [pc |-> "sleep", failures |-> 0, new_state |-> "locked",
     answer |-> NoAnswer, wake |-> BootTime]

\* DeviceService.__init__: nothing in flight, relay output low
ServiceConstructed ==
    [pc |-> "read", processing |-> FALSE, relay |-> "closed",
     door_state |-> "locked", image_url |-> FALSE, notified |-> <<>>,
     wake |-> 0]

\* a publisher thread that start_streaming has not created yet
Workers == 1..MaxWorkers
Unborn == [pc |-> "unborn", failures |-> 0, frame |-> 0, wake |-> 0]

\* the state after DeviceServiceLocal.__init__
Constructed ==
    /\ now = BootTime
    /\ latest_frame = None
    /\ pc = "read"
    /\ processing = FALSE
    /\ last_recognition_time = 0
    /\ current_time = 0
    /\ wake = 0
    /\ sent = 0
    /\ local_door_state = "locked"
    /\ relay = "closed"
    /\ call_in_progress = FALSE
    /\ last_button_press = 0
    /\ apipc = "idle"
    /\ req = IdleReq
    /\ cycles = 0
    /\ lastCompletedAt = -1
    /\ consumed = {}
    /\ lastWriter = "init"
    /\ attemptAge = button_debounce_time
    /\ door_state = "locked"
    /\ door_state_lock = "free"
    /\ mon = MonitorStarted
    /\ failStreak = 0
    /\ ds = ServiceConstructed
    /\ caller = NoCall
    /\ cam = [pc |-> "grab", frame |-> 0]
    /\ frame_lock = "free"
    /\ slot = 0
    /\ grabbed = 0
    /\ reader = [pc |-> "read", frame |-> 0, prev |-> 0, cycled |-> FALSE]

\* APIClient.__init__: streaming off, the queue empty, stream_thread not
\* started; n frames have been captured so far
StreamConstructed(n) ==
    /\ stream_active = FALSE
    /\ frame_queue = <<>>
    /\ stream_thread = 0
    /\ workers = [w \in Workers |-> Unborn]
    /\ ctl = [pc |-> "idle", wake |-> 0]
    /\ prod = [pc |-> "idle", frame |-> n]
    /\ published = 0

\* the state after the first start_streaming()
StreamStarted ==
    /\ stream_active = TRUE
    /\ frame_queue = <<>>
    /\ stream_thread = 1
    /\ workers = [w \in Workers |-> IF w = 1
                                     THEN [Unborn EXCEPT !.pc = "loop"]
                                     ELSE Unborn]
    /\ ctl = [pc |-> "idle", wake |-> 0]
    /\ prod = [pc |-> "idle", frame |-> 0]
    /\ published = 0

\* ------------------------------------------------------ recognizer inputs
SimValues == -1..MaxSim
Thresholds == -1..(MaxSim - 1)
Entries == 1..MaxGallery

\* a detected face: its crop is empty, the embedder raises on it, or the
\* embedder returns a vector whose cosine similarity to entry e is sims[e]
Faces ==
    [kind : {"ok"}, sims : [Entries -> SimValues]]
    \cup [kind : {"crop_empty", "embed_raises"}, sims : {[e \in Entries |-> 0]}]

\* a frame: the detector raises on it, or returns up to MaxFaces faces
Frames ==
    [detect : {"raises"}, faces : {<<>>}]
    \cup [detect : {"ok"},
          faces : UNION {[1..n -> Faces] : n \in 0..MaxFaces}]

\* the gallery built at startup, and the gallery a refresh builds after
\* one image was added to the device's folder
OldGallery == [i \in 1..(MaxGallery - 1) |-> i]
NewGallery == [i \in 1..MaxGallery |-> i]

\* no call of recognize has ended yet
NoResult ==
    [status |-> "none", matched |-> FALSE, face |-> 0, entry |-> 0,
     confidence |-> 0, reason |-> "none"]

\* Recognizer.__init__ followed by the startup build of the gallery, no
\* frame recognized yet
RecognizerBuilt(m, t, f) ==
    /\ impl = m
    /\ threshold = t
    /\ embeddings = OldGallery
    /\ frame = f
    /\ result = NoResult
    /\ seen = <<>>
    /\ refresh = [pc |-> "idle", next |-> 0]

NoFrame == [detect |-> "ok", faces |-> <<>>]
RecognizerIdle == RecognizerBuilt("recognizer.py", 1, NoFrame)

\* the doorbell with a remote side that sends the two door commands
Init ==
    Constructed /\ StreamConstructed(0) /\ RecognizerIdle
    /\ inbox = DoorTokens

\* the endpoint with a remote side that sends every kind of body
InitRemote ==
    Constructed /\ StreamConstructed(0) /\ RecognizerIdle /\ inbox = Bodies

\* streaming has been started and no frame has been queued yet
InitPublisher ==
    Constructed /\ StreamStarted /\ RecognizerIdle /\ inbox = DoorTokens

\* streaming has been started, the publisher thread is inside the POST of
\* frame 1, and Backlog frames have been queued behind it
StreamBacklog ==
    /\ stream_active = TRUE
    /\ frame_queue = [i \in 1..Backlog |-> i + 1]
    /\ stream_thread = 1
    /\ workers = [w \in Workers |->
                     IF w = 1 THEN [Unborn EXCEPT !.pc = "post", !.frame = 1]
                     ELSE Unborn]
    /\ ctl = [pc |-> "idle", wake |-> 0]
    /\ prod = [pc |-> "idle", frame |-> Backlog + 1]
    /\ published = 0

\* streaming has been started, the first frames have all failed to go out
\* and the publisher thread is inside the POST that can bring failures to
\* five; one more frame is queued behind it
StreamFailing ==
    /\ stream_active = TRUE
    /\ frame_queue = <<StreamMaxFailures + 1>>
    /\ stream_thread = 1
    /\ workers = [w \in Workers |->
                     IF w = 1 THEN [Unborn EXCEPT !.pc = "post",
                                       !.failures = StreamMaxFailures - 1,
                                       !.frame = StreamMaxFailures]
                     ELSE Unborn]
    /\ ctl = [pc |-> "idle", wake |-> 0]
    /\ prod = [pc |-> "idle", frame |-> StreamMaxFailures + 1]
    /\ published = 0

InitBackend ==
    Constructed /\ StreamFailing /\ RecognizerIdle /\ inbox = DoorTokens

InitStream ==
    Constructed /\ StreamBacklog /\ RecognizerIdle /\ inbox = DoorTokens

\* a recognizer of either class with any threshold, about to be handed
\* any frame
InitRecognize ==
    /\ Constructed /\ StreamConstructed(0) /\ inbox = DoorTokens
    /\ \E m \in {"recognizer.py", "res_recognizer.py"}, t \in Thresholds,
          f \in Frames : RecognizerBuilt(m, t, f)

\* ------------------------------------------------------------------- time
\* the sleep a handler still has to go through before it returns
SleepAhead(p) ==
    IF p \in {"g_upload", "g_open", "g_state"} THEN DoorOpenDwell
    ELSE IF p \in {"d_close", "d_state"} THEN DeniedHold
    ELSE 0

\* a second passes; the clock stops at the horizon, and it leaves a handler
\* that has not reached its sleep yet the time to finish the sleep
Tick ==
    /\ now < Horizon
    /\ now + 1 + SleepAhead(pc) <= Horizon
    /\ now' = now + 1
    /\ attemptAge' = IF attemptAge < button_debounce_time
                      THEN attemptAge + 1 ELSE attemptAge
    /\ UNCHANGED <<auxVars, syncVars, ds, latest_frame, loopVars, call_in_progress,
                   last_button_press, doorVars, apipc, reqVars>>

\* ----------------------------------------------------------------- camera
\* capture_loop overwrites the single latest-frame slot.  A frame shows no
\* face ("empty"), a face the recognizer matches ("known") or a face it
\* does not match ("unknown").
FrameKinds == {"empty", "known", "unknown"}

Capture ==
    /\ \E f \in FrameKinds \ {latest_frame} : latest_frame' = f
    /\ UNCHANGED <<auxVars, syncVars, ds, now, loopVars, callVars, doorVars, apipc, reqVars>>

\* ------------------------------------------------- camera.py: the slot
cameraRest == <<now, streamVars, recogVars, caller, syncVars, ds,
                latest_frame, loopVars, callVars, doorVars, apipc, reqVars>>

\* capture_loop: picam2.capture_array() and cv2.cvtColor: a converted
\* frame, None from the sensor, or an exception, which is caught
CamGrab ==
    /\ cam.pc = "grab"
    /\ grabbed < MaxFrames
    /\ \E out \in {"frame", "none", "raises"} :
         IF out = "frame"
         THEN /\ grabbed' = grabbed + 1
              /\ cam' = [pc |-> "store", frame |-> grabbed + 1]
         ELSE /\ cam' = [pc |-> "sleep", frame |-> 0]
              /\ UNCHANGED grabbed
    /\ UNCHANGED <<frame_lock, slot, reader, cameraRest>>

\* CamStore with a frame that has not been read yet left in the slot
CamStore_KeepsUnread ==
    /\ cam.pc = "store"
    /\ frame_lock = "free"
    /\ slot' = IF reader.frame = slot THEN cam.frame ELSE slot
    /\ cam' = [pc |-> "sleep", frame |-> 0]
    /\ UNCHANGED <<frame_lock, grabbed, reader, cameraRest>>

\* capture_loop: with self.frame_lock: self.latest_frame = frame_bgr
CamStore ==
    /\ cam.pc = "store"
    /\ frame_lock = "free"
    /\ slot' = cam.frame
    /\ cam' = [pc |-> "sleep", frame |-> 0]
    /\ UNCHANGED <<frame_lock, grabbed, reader, cameraRest>>

\* capture_loop: time.sleep(1/self.framerate) is over
CamSleep ==
    /\ cam.pc = "sleep"
    /\ cam' = [cam EXCEPT !.pc = "grab"]
    /\ UNCHANGED <<frame_lock, slot, grabbed, reader, cameraRest>>

\* Camera.read: with self.frame_lock (entered)
ReaderAcquire ==
    /\ reader.pc = "read"
    /\ frame_lock = "free"
    /\ frame_lock' = "reader"
    /\ reader' = [reader EXCEPT !.pc = "copy"]
    /\ UNCHANGED <<cam, slot, grabbed, cameraRest>>

\* Camera.read: None, or self.latest_frame.copy(), is returned and the
\* lock released; loop() sleeps 0.05 s on None and goes on otherwise
ReaderCopy ==
    /\ reader.pc = "copy"
    /\ reader' = [reader EXCEPT !.pc = IF slot = 0 THEN "nap" ELSE "work",
                                !.frame = slot, !.prev = reader.frame]
    /\ frame_lock' = "free"
    /\ UNCHANGED <<cam, slot, grabbed, cameraRest>>

\* loop(): time.sleep(0.05); continue
ReaderNap ==
    /\ reader.pc = "nap"
    /\ reader' = [reader EXCEPT !.pc = "read"]
    /\ UNCHANGED <<cam, frame_lock, slot, grabbed, cameraRest>>

\* loop(): the frame is looked at; either a handler is entered, which
\* keeps the thread for seconds, or the iteration ends
ReaderWork ==
    /\ reader.pc = "work"
    /\ \E cycle \in BOOLEAN :
         reader' = [reader EXCEPT !.pc = IF cycle THEN "cycle" ELSE "read",
                                  !.cycled = FALSE]
    /\ UNCHANGED <<cam, frame_lock, slot, grabbed, cameraRest>>

\* loop(): the handler has returned and the iteration ends
ReaderCycleDone ==
    /\ reader.pc = "cycle"
    /\ reader' = [reader EXCEPT !.pc = "read", !.cycled = TRUE]
    /\ UNCHANGED <<cam, frame_lock, slot, grabbed, cameraRest>>

\* ------------------------------------------------------------ camera loop
\* loop(): the test that starts a recognition cycle
CanStartCycle(faces, proc, t, last) ==
    faces /\ ~proc /\ t - last > recognition_cooldown

HasFaces(f) == f \in {"known", "unknown"}

\* initiate_call_to_owner: the two early returns
CallAccepted(t, last, inprog) ==
    ~(t - last < button_debounce_time) /\ ~inprog

\* LoopStartCycle with the guard left unset
LoopStartCycle_NoGuard ==
    /\ pc = "read"
    /\ latest_frame # None
    /\ CanStartCycle(HasFaces(latest_frame), processing, now,
                     last_recognition_time)
    /\ now + SleepAhead(IF latest_frame = "known" THEN "g_upload"
                        ELSE "d_close") <= Horizon
    /\ processing' = processing
    /\ current_time' = now
    /\ cycles' = cycles + 1
    /\ sent' = 0
    /\ pc' = IF latest_frame = "known" THEN "g_upload" ELSE "d_close"
    /\ UNCHANGED <<auxVars, syncVars, ds, now, latest_frame, last_recognition_time, wake,
                   lastCompletedAt, callVars, doorVars, apipc, reqVars>>

\* a frame is read, a face is seen and the cycle starts: the guard is set
\* and the handler for the verdict is entered (a cycle starts only if its
\* sleep ends inside the modelled time span)
LoopStartCycle ==
    /\ pc = "read"
    /\ latest_frame # None
    /\ CanStartCycle(HasFaces(latest_frame), processing, now,
                     last_recognition_time)
    /\ now + SleepAhead(IF latest_frame = "known" THEN "g_upload"
                        ELSE "d_close") <= Horizon
    /\ processing' = TRUE
    /\ current_time' = now
    /\ cycles' = cycles + 1
    /\ sent' = 0
    /\ pc' = IF latest_frame = "known" THEN "g_upload" ELSE "d_close"
    /\ UNCHANGED <<auxVars, syncVars, ds, now, latest_frame, last_recognition_time, wake,
                   lastCompletedAt, callVars, doorVars, apipc, reqVars>>

\* a frame is read, no cycle starts, and the button poll that ends the
\* iteration finds the button pressed: initiate_call_to_owner is entered
\* and passes its early returns
LoopPollButton ==
    /\ pc = "read"
    /\ latest_frame # None
    /\ ~CanStartCycle(HasFaces(latest_frame), processing, now,
                      last_recognition_time)
    /\ CallAccepted(now, last_button_press, call_in_progress)
    /\ pc' = "call_set"
    /\ UNCHANGED <<auxVars, syncVars, ds, now, latest_frame, cycleVars, callVars, doorVars, apipc,
                   reqVars>>

\* handle_recognized_person: upload the capture; the notification is sent
\* only when the upload returned a URL
LoopGrantNotify ==
    /\ pc = "g_upload"
    /\ \E image_url \in BOOLEAN : sent' = IF image_url THEN 1 ELSE 0
    /\ pc' = "g_open"
    /\ UNCHANGED <<auxVars, syncVars, ds, now, latest_frame, processing, last_recognition_time,
                   current_time, wake, cycles, lastCompletedAt, callVars,
                   doorVars, apipc, reqVars>>

\* handle_recognized_person: self.relay.open()
LoopGrantOpen ==
    /\ pc = "g_open"
    /\ relay' = "open"
    /\ pc' = "g_state"
    /\ UNCHANGED <<auxVars, syncVars, ds, now, latest_frame, cycleVars, callVars, local_door_state,
                   lastWriter, apipc, reqVars>>

\* handle_recognized_person: local_door_state = "unlocked", beep, and the
\* dwell time.sleep(5) begins
LoopGrantUnlock ==
    /\ pc = "g_state"
    /\ local_door_state' = "unlocked"
    /\ lastWriter' = "local"
    /\ wake' = now + DoorOpenDwell
    /\ pc' = "g_dwell"
    /\ UNCHANGED <<auxVars, syncVars, ds, now, latest_frame, processing, last_recognition_time,
                   current_time, sent, cycles, lastCompletedAt, callVars,
                   relay, apipc, reqVars>>

\* LoopGrantClose with the relay.close() left out
LoopGrantClose_NoClose ==
    /\ pc = "g_dwell"
    /\ now >= wake
    /\ relay' = relay
    /\ pc' = "g_relock"
    /\ UNCHANGED <<auxVars, syncVars, ds, now, latest_frame, cycleVars, callVars, local_door_state,
                   lastWriter, apipc, reqVars>>

\* handle_recognized_person: the dwell is over, self.relay.close()
LoopGrantClose ==
    /\ pc = "g_dwell"
    /\ now >= wake
    /\ relay' = "closed"
    /\ pc' = "g_relock"
    /\ UNCHANGED <<auxVars, syncVars, ds, now, latest_frame, cycleVars, callVars, local_door_state,
                   lastWriter, apipc, reqVars>>

\* what loop() does when the handler has returned: last_recognition_time
\* takes the current_time read before the handler ran, the guard is cleared
FinishCycle ==
    /\ last_recognition_time' = current_time
    /\ processing' = FALSE
    /\ cycles' = cycles - 1
    /\ lastCompletedAt' = now
    /\ current_time' = 0
    /\ wake' = 0
    /\ sent' = 0
    /\ pc' = "button"

\* handle_recognized_person: local_door_state = "locked"; the handler returns
LoopGrantRelock ==
    /\ pc = "g_relock"
    /\ local_door_state' = "locked"
    /\ lastWriter' = "local"
    /\ FinishCycle
    /\ UNCHANGED <<auxVars, syncVars, ds, now, latest_frame, callVars, relay, apipc, reqVars>>

\* LoopDenyClose with relay.open() in the place of relay.close()
LoopDenyClose_Opens ==
    /\ pc = "d_close"
    /\ relay' = "open"
    /\ pc' = "d_state"
    /\ UNCHANGED <<auxVars, syncVars, ds, now, latest_frame, cycleVars, callVars, local_door_state,
                   lastWriter, apipc, reqVars>>

\* handle_unrecognized_person: self.relay.close()
LoopDenyClose ==
    /\ pc = "d_close"
    /\ relay' = "closed"
    /\ pc' = "d_state"
    /\ UNCHANGED <<auxVars, syncVars, ds, now, latest_frame, cycleVars, callVars, local_door_state,
                   lastWriter, apipc, reqVars>>

\* handle_unrecognized_person: local_door_state = "locked", beep, and the
\* hold time.sleep(3) begins
LoopDenyLock ==
    /\ pc = "d_state"
    /\ local_door_state' = "locked"
    /\ lastWriter' = "local"
    /\ wake' = now + DeniedHold
    /\ pc' = "d_hold"
    /\ UNCHANGED <<auxVars, syncVars, ds, now, latest_frame, processing, last_recognition_time,
                   current_time, sent, cycles, lastCompletedAt, callVars,
                   relay, apipc, reqVars>>

\* handle_unrecognized_person: the hold is over; the handler returns
LoopDenyDone ==
    /\ pc = "d_hold"
    /\ now >= wake
    /\ FinishCycle
    /\ UNCHANGED <<auxVars, syncVars, ds, now, latest_frame, callVars, doorVars, apipc, reqVars>>

\* ------------------------------------------------------------------ calls
\* loop(): the button poll after a cycle; a press enters
\* initiate_call_to_owner
LoopButton ==
    /\ pc = "button"
    /\ \E pressed \in BOOLEAN :
         pc' = IF pressed /\ CallAccepted(now, last_button_press,
                                          call_in_progress)
               THEN "call_set" ELSE "read"
    /\ UNCHANGED <<auxVars, syncVars, ds, now, latest_frame, cycleVars, callVars, doorVars, apipc,
                   reqVars>>

\* initiate_call_to_owner on the loop thread: call_in_progress = True
LoopCallSet ==
    /\ pc = "call_set"
    /\ call_in_progress' = TRUE
    /\ pc' = "call_place"
    /\ UNCHANGED <<auxVars, syncVars, ds, now, latest_frame, cycleVars, last_button_press,
                   attemptAge, doorVars, apipc, reqVars>>

\* initiate_call_to_owner on the loop thread: linphone.call() returns, or
\* raises and the except branch clears call_in_progress
LoopCallPlace ==
    /\ pc = "call_place"
    /\ \E raised \in BOOLEAN :
         call_in_progress' = IF raised THEN FALSE ELSE call_in_progress
    /\ attemptAge' = 0
    /\ pc' = "read"
    /\ UNCHANGED <<auxVars, syncVars, ds, now, latest_frame, cycleVars, last_button_press, doorVars,
                   apipc, reqVars>>

\* trigger_call / handle_call_owner: a request thread enters
\* initiate_call_to_owner and passes the two early returns
ApiCallCheck ==
    /\ apipc = "idle"
    /\ CallAccepted(now, last_button_press, call_in_progress)
    /\ apipc' = "call_set"
    /\ UNCHANGED <<auxVars, syncVars, ds, now, latest_frame, loopVars, callVars, doorVars, reqVars>>

\* initiate_call_to_owner on a request thread: call_in_progress = True
ApiCallSet ==
    /\ apipc = "call_set"
    /\ call_in_progress' = TRUE
    /\ apipc' = "call_place"
    /\ UNCHANGED <<auxVars, syncVars, ds, now, latest_frame, loopVars, last_button_press,
                   attemptAge, doorVars, reqVars>>

\* initiate_call_to_owner on a request thread: linphone.call()
ApiCallPlace ==
    /\ apipc = "call_place"
    /\ \E raised \in BOOLEAN :
         call_in_progress' = IF raised THEN FALSE ELSE call_in_progress
    /\ attemptAge' = 0
    /\ apipc' = "idle"
    /\ UNCHANGED <<auxVars, syncVars, ds, now, latest_frame, loopVars, last_button_press, doorVars,
                   reqVars>>

\* EndCall with the door locked again when the call ends
EndCall_Relocks ==
    /\ call_in_progress
    /\ call_in_progress' = FALSE
    /\ relay' = "closed"
    /\ local_door_state' = "locked"
    /\ UNCHANGED <<auxVars, syncVars, ds, now, latest_frame, loopVars,
                   last_button_press, attemptAge, lastWriter, apipc,
                   reqVars>>

\* _end_call (end_call in device_service.py): the call is hung up and
\* call_in_progress = False
EndCall ==
    /\ call_in_progress
    /\ call_in_progress' = FALSE
    /\ UNCHANGED <<auxVars, syncVars, ds, now, latest_frame, loopVars,
                   last_button_press, attemptAge, doorVars, apipc, reqVars>>

\* ----------------------------------------------------------- door control
\* fernet.decrypt(ciphertext, ttl=10): a token that is not authentic, or
\* that was made more than ttl seconds ago, raises InvalidToken
FernetDecrypt(tok, t) ==
    IF ~tok.authentic \/ tok.issued + FernetTTL < t
    THEN "InvalidToken" ELSE "plaintext"

\* Expired without the abs(), the difference taken the wrong way round
Expired_Signed(t, ts) == ts - t > ReplayWindow

\* decrypt_request: the anti-replay test on the payload's own timestamp
Expired(t, ts) == Abs(t - ts) > ReplayWindow

\* decrypt_request(ciphertext) at time t: "payload" when the payload is
\* returned, "None" when InvalidToken or ValueError is caught, and
\* "KeyError" / "TypeError" when payload["timestamp"] or the subtraction
\* raises an exception the except clause does not name
decrypt_request(tok, t) ==
    IF FernetDecrypt(tok, t) = "InvalidToken" THEN "None"
    ELSE IF tok.kind = "notjson" THEN "None"
    ELSE IF tok.kind = "no_ts" THEN "KeyError"
    ELSE IF tok.kind = "bad_ts" THEN "TypeError"
    ELSE IF Expired(t, tok.ts) THEN "None"
    ELSE "payload"

\* Decide with the lock test followed by an else that unlocks
Decide_ElseUnlock(body, t) ==
    IF body = NoData THEN [code |-> 400, status |-> "missing payload"]
    ELSE LET payload == decrypt_request(body, t) IN
         IF payload \in {"KeyError", "TypeError"}
         THEN [code |-> 500, status |-> payload]
         ELSE IF payload = "None"
         THEN [code |-> 403, status |-> "invalid or expired request"]
         ELSE IF body.kind = "no_action"
         THEN [code |-> 500, status |-> "KeyError"]
         ELSE [code |-> 0, status |-> body.action]

\* door_control up to the dispatch on the action: the answer of a request
\* that is not applied, or code 0 for a command that goes on to be applied.
\* An exception that leaves the view function is answered 500.
Decide(body, t) ==
    IF body = NoData THEN [code |-> 400, status |-> "missing payload"]
    ELSE LET payload == decrypt_request(body, t) IN
         IF payload \in {"KeyError", "TypeError"}
         THEN [code |-> 500, status |-> payload]
         ELSE IF payload = "None"
         THEN [code |-> 403, status |-> "invalid or expired request"]
         ELSE IF body.kind = "no_action"
         THEN [code |-> 500, status |-> "KeyError"]
         ELSE IF body.action \in {"unlock", "lock"}
         THEN [code |-> 0, status |-> body.action]
         ELSE [code |-> 400, status |-> "invalid action"]

\* door_control: what an applied action writes and answers
DoorStateFor(action) == IF action = "unlock" THEN "unlocked" ELSE "locked"

\* RelayFor with open() and close() swapped
RelayFor_Swapped(action) == IF action = "unlock" THEN "closed" ELSE "open"

RelayFor(action) == IF action = "unlock" THEN "open" ELSE "closed"

\* a request arrives once the previous one is answered; a request that is
\* not applied is answered at once
DoorControlReceive ==
    /\ req.pc \in {"idle", "done"}
    /\ \E body \in inbox :
         LET d == Decide(body, now) IN
         /\ req' = [pc |-> IF d.code = 0 THEN "w_state" ELSE "done",
                    body |-> body, code |-> d.code, status |-> d.status]
         /\ consumed' = IF d.code = 0 THEN consumed \cup {body}
                        ELSE consumed
    /\ UNCHANGED <<auxVars, syncVars, ds, now, latest_frame, loopVars, callVars, doorVars, apipc,
                   inbox>>

\* door_control: service.local_door_state = ...
DoorControlState ==
    /\ req.pc = "w_state"
    /\ local_door_state' = DoorStateFor(req.body.action)
    /\ lastWriter' = req.body.id
    /\ req' = [req EXCEPT !.pc = "w_relay"]
    /\ UNCHANGED <<auxVars, syncVars, ds, now, latest_frame, loopVars, callVars, relay, apipc,
                   inbox, consumed>>

\* door_control: service.relay.open() / close(), then the 200 answer
DoorControlRelay ==
    /\ req.pc = "w_relay"
    /\ relay' = RelayFor(req.body.action)
    /\ req' = [req EXCEPT !.pc = "done", !.code = 200,
                          !.status = DoorStateFor(req.body.action)]
    /\ UNCHANGED <<auxVars, syncVars, ds, now, latest_frame, loopVars, callVars, local_door_state,
                   lastWriter, apipc, inbox, consumed>>

\* ------------------------------------------------- door-state synchronizer
\* a second passes on the synchronizer's clock
SyncTick ==
    /\ now < BootTime + MaxSyncTime
    /\ now' = now + 1
    /\ attemptAge' = IF attemptAge < button_debounce_time
                      THEN attemptAge + 1 ELSE attemptAge
    /\ UNCHANGED <<auxVars, syncVars, ds, latest_frame, loopVars, call_in_progress,
                   last_button_press, doorVars, apipc, reqVars>>

\* NewState with the default taken whatever the body says
NewState_Locked(ans) == "locked"

\* _monitor_door_state: new_state = data.get('state', 'locked')
NewState(ans) == IF ans.state = None THEN "locked" ELSE ans.state

\* _monitor_door_state: the end of an iteration with f failures counted:
\* the long sleep and a cleared count at max_failures, else the normal sleep
Pause(f) ==
    IF f >= max_failures
    THEN [failures |-> 0, wake |-> now + PausedInterval]
    ELSE [failures |-> f, wake |-> now + check_interval]

\* _monitor_door_state: the sleep is over and the backend is polled.  A 200
\* goes on to the critical section; a non-200 is logged; a timeout or any
\* other exception counts a failure; the iteration then goes to sleep.
MonitorPoll ==
    /\ mon.pc = "sleep"
    /\ now >= mon.wake
    /\ \E ans \in Answers :
         IF ans.kind = "200"
         THEN /\ mon' = [mon EXCEPT !.pc = "acquire", !.answer = ans,
                                    !.new_state = NewState(ans)]
              /\ failStreak' = 0
         ELSE LET f == IF ans.kind = "non200" THEN mon.failures
                       ELSE mon.failures + 1
              IN /\ mon' = [mon EXCEPT !.answer = ans,
                                       !.failures = Pause(f).failures,
                                       !.wake = Pause(f).wake]
                 /\ failStreak' = IF ans.kind = "non200" THEN failStreak
                                  ELSE failStreak + 1
    /\ UNCHANGED <<auxVars, now, door_state, door_state_lock, ds, latest_frame,
                   loopVars, callVars, doorVars, apipc, reqVars>>

\* _monitor_door_state: with self.door_state_lock (entered)
MonitorAcquire ==
    /\ mon.pc = "acquire"
    /\ door_state_lock = "free"
    /\ door_state_lock' = "monitor"
    /\ mon' = [mon EXCEPT !.pc = "write"]
    /\ UNCHANGED <<auxVars, now, door_state, failStreak, ds, latest_frame, loopVars,
                   callVars, doorVars, apipc, reqVars>>

\* _monitor_door_state: inside the lock the new state is written if it
\* differs; the lock is released, failures is cleared and the normal sleep
\* begins
MonitorWrite ==
    /\ mon.pc = "write"
    /\ door_state' = IF mon.new_state # door_state THEN mon.new_state
                     ELSE door_state
    /\ door_state_lock' = "free"
    /\ mon' = [mon EXCEPT !.pc = "sleep", !.failures = Pause(0).failures,
                          !.wake = Pause(0).wake]
    /\ UNCHANGED <<auxVars, now, failStreak, ds, latest_frame, loopVars, callVars,
                   doorVars, apipc, reqVars>>

\* ------------------------------------------------ APIClient request methods
callerRest == <<now, streamVars, recogVars, cameraVars, mon, failStreak, ds,
                latest_frame,
                loopVars, callVars, doorVars, apipc, reqVars>>

RequestMethods == {"initiate_call", "upload_captured_face",
                   "send_notification"}

\* what a request method gives back for an answer: initiate_call and
\* upload_captured_face parse the body of a 200 (a body that is not JSON
\* raises inside the try), upload_captured_face returns data.get('url'),
\* send_notification looks at the status only; `except Exception` returns
\* False, or None for the upload
Reply(fn, ans) ==
    IF fn = "upload_captured_face"
    THEN IF ans.kind = "200" /\ ans.body = "url" THEN "url" ELSE "None"
    ELSE IF fn = "initiate_call"
    THEN IF ans.kind = "200" /\ ans.body # "not_json" THEN "True"
         ELSE "False"
    ELSE IF ans.kind = "200" THEN "True" ELSE "False"

\* Reply with a timeout that reaches the caller
Reply_Raises(fn, ans) ==
    IF ans.kind = "timeout" THEN "raised" ELSE Reply(fn, ans)

\* BackendCall with the timeout not caught
BackendCall_Raises ==
    /\ caller.pc = "idle"
    /\ \E fn \in RequestMethods, ans \in Replies :
         caller' = [pc |-> "idle", fn |-> fn, state |-> None, answer |-> ans,
                    result |-> Reply_Raises(fn, ans)]
    /\ UNCHANGED <<door_state, door_state_lock, callerRest>>

\* initiate_call, upload_captured_face, send_notification: the request is
\* made and the method returns
BackendCall ==
    /\ caller.pc = "idle"
    /\ \E fn \in RequestMethods, ans \in Replies :
         caller' = [pc |-> "idle", fn |-> fn, state |-> None, answer |-> ans,
                    result |-> Reply(fn, ans)]
    /\ UNCHANGED <<door_state, door_state_lock, callerRest>>

\* UpdateDoorState with the state written before the answer is looked at
UpdateDoorState_Optimistic ==
    /\ caller.pc = "idle"
    /\ door_state_lock = "free"
    /\ \E s \in {"locked", "unlocked"}, ans \in Replies :
         /\ door_state' = s
         /\ caller' = [pc |-> IF ans.kind = "200" THEN "acquire" ELSE "idle",
                       fn |-> "update_door_state", state |-> s,
                       answer |-> ans,
                       result |-> IF ans.kind = "200" THEN None ELSE "False"]
    /\ UNCHANGED <<door_state_lock, callerRest>>

\* update_door_state(state): requests.put is answered; a 200 goes on to
\* the critical section, another status returns False, a timeout or any
\* other exception is caught and returns False
UpdateDoorState ==
    /\ caller.pc = "idle"
    /\ \E s \in {"locked", "unlocked"}, ans \in Replies :
         caller' = [pc |-> IF ans.kind = "200" THEN "acquire" ELSE "idle",
                    fn |-> "update_door_state", state |-> s, answer |-> ans,
                    result |-> IF ans.kind = "200" THEN None ELSE "False"]
    /\ UNCHANGED <<door_state, door_state_lock, callerRest>>

\* update_door_state: with self.door_state_lock (entered)
UpdateAcquire ==
    /\ caller.pc = "acquire"
    /\ door_state_lock = "free"
    /\ door_state_lock' = "caller"
    /\ caller' = [caller EXCEPT !.pc = "write"]
    /\ UNCHANGED <<door_state, callerRest>>

\* update_door_state: self.door_state = state inside the lock, which is
\* then released
UpdateWrite ==
    /\ caller.pc = "write"
    /\ door_state' = caller.state
    /\ door_state_lock' = "free"
    /\ caller' = [caller EXCEPT !.pc = "return"]
    /\ UNCHANGED callerRest

\* update_door_state: return True
UpdateReturn ==
    /\ caller.pc = "return"
    /\ caller' = [caller EXCEPT !.pc = "idle", !.result = "True"]
    /\ UNCHANGED <<door_state, door_state_lock, callerRest>>

\* ------------------------------------------- DeviceService (gated policy)
svcRest == <<failStreak, latest_frame, loopVars, callVars, doorVars, apipc,
             reqVars>>

\* start(): a frame with a face while no cycle is in flight: the guard is
\* set and the handler for the verdict is entered
SvcStartCycle ==
    /\ ds.pc = "read"
    /\ ~ds.processing
    /\ \E f \in {"known", "unknown"} :
         ds' = [ds EXCEPT !.processing = TRUE, !.notified = <<>>,
                          !.image_url = FALSE,
                          !.pc = IF f = "known" THEN "r_upload"
                                 ELSE "u_upload"]
    /\ UNCHANGED <<auxVars, now, door_state, door_state_lock, mon, svcRest>>

\* handle_recognized_person: capture_and_upload_to_supabase returns a URL
\* or None
SvcUpload ==
    /\ ds.pc = "r_upload"
    /\ \E url \in BOOLEAN : ds' = [ds EXCEPT !.image_url = url, !.pc = "r_read"]
    /\ UNCHANGED <<auxVars, now, door_state, door_state_lock, mon, svcRest>>

\* handle_recognized_person: door_state = api_client.get_door_state(), the
\* read made inside door_state_lock
SvcReadDoorState ==
    /\ ds.pc = "r_read"
    /\ door_state_lock = "free"
    /\ ds' = [ds EXCEPT !.door_state = door_state, !.pc = "r_gate"]
    /\ UNCHANGED <<auxVars, now, door_state, door_state_lock, mon, svcRest>>

\* handle_recognized_person: the door state read is locked: no relay, the
\* recognized_denied notification, and the 3 s hold begins
SvcDeny ==
    /\ ds.pc = "r_gate"
    /\ ds.door_state = "locked"
    /\ ds' = [ds EXCEPT !.notified = Append(@, "recognized_denied"),
                        !.wake = now + DeniedHold, !.pc = "r_denied"]
    /\ UNCHANGED <<auxVars, now, door_state, door_state_lock, mon, svcRest>>

\* SvcGrant without the test on the door state read
SvcGrant_Ungated ==
    /\ ds.pc = "r_gate"
    /\ ds' = [ds EXCEPT !.relay = "open",
                        !.notified = Append(@, "recognized_granted"),
                        !.wake = now + DoorOpenDwell, !.pc = "r_granted"]
    /\ UNCHANGED <<auxVars, now, door_state, door_state_lock, mon, svcRest>>

\* handle_recognized_person: the door state read is not locked:
\* relay.open(), the recognized_granted notification, and the 5 s dwell
SvcGrant ==
    /\ ds.pc = "r_gate"
    /\ ds.door_state # "locked"
    /\ ds' = [ds EXCEPT !.relay = "open",
                        !.notified = Append(@, "recognized_granted"),
                        !.wake = now + DoorOpenDwell, !.pc = "r_granted"]
    /\ UNCHANGED <<auxVars, now, door_state, door_state_lock, mon, svcRest>>

\* start(): the handler has returned: the guard is cleared and the 2 s
\* cooldown sleep begins
SvcFinish(d) ==
    [d EXCEPT !.processing = FALSE, !.wake = now + ProcessingCooldown,
              !.pc = "cooldown"]

\* handle_recognized_person: the hold of a denied match is over
SvcDenyDone ==
    /\ ds.pc = "r_denied"
    /\ now >= ds.wake
    /\ ds' = SvcFinish(ds)
    /\ UNCHANGED <<auxVars, now, door_state, door_state_lock, mon, svcRest>>

\* handle_recognized_person: the dwell is over, relay.close()
SvcGrantClose ==
    /\ ds.pc = "r_granted"
    /\ now >= ds.wake
    /\ ds' = SvcFinish([ds EXCEPT !.relay = "closed"])
    /\ UNCHANGED <<auxVars, now, door_state, door_state_lock, mon, svcRest>>

\* handle_unrecognized_person: upload, the unrecognized notification, and
\* the 3 s hold begins
SvcUnrecognized ==
    /\ ds.pc = "u_upload"
    /\ \E url \in BOOLEAN :
         ds' = [ds EXCEPT !.image_url = url,
                          !.notified = Append(@, "unrecognized"),
                          !.wake = now + DeniedHold, !.pc = "u_hold"]
    /\ UNCHANGED <<auxVars, now, door_state, door_state_lock, mon, svcRest>>

\* handle_unrecognized_person: the hold is over
SvcUnrecognizedDone ==
    /\ ds.pc = "u_hold"
    /\ now >= ds.wake
    /\ ds' = SvcFinish(ds)
    /\ UNCHANGED <<auxVars, now, door_state, door_state_lock, mon, svcRest>>

\* start(): the cooldown sleep is over; the next frame is read
SvcCooldownDone ==
    /\ ds.pc = "cooldown"
    /\ now >= ds.wake
    /\ ds' = [ds EXCEPT !.pc = "read"]
    /\ UNCHANGED <<auxVars, now, door_state, door_state_lock, mon, svcRest>>

\* ------------------------------------------------- frame queue, publisher
streamRest == <<recogVars, caller, cameraVars, syncVars, ds, latest_frame,
                loopVars, callVars, doorVars, apipc, reqVars>>

\* a thread that is waiting: a publisher inside requests.post, inside the
\* failure pause, or polling an empty queue; every other position is left
\* within milliseconds
Waiting(w) ==
    \/ workers[w].pc \in {"unborn", "dead", "post", "pause"}
    \/ workers[w].pc = "loop" /\ stream_active /\ frame_queue = <<>>

\* a second passes on the publisher's clock; no thread is in the middle of
\* code that does not wait
StreamTick ==
    /\ now < BootTime + MaxStreamTime
    /\ \A w \in Workers : Waiting(w)
    /\ prod.pc = "idle"
    /\ now' = now + 1
    /\ attemptAge' = IF attemptAge < button_debounce_time
                      THEN attemptAge + 1 ELSE attemptAge
    /\ UNCHANGED <<auxVars, syncVars, ds, latest_frame, loopVars,
                   call_in_progress, last_button_press, doorVars, apipc,
                   reqVars>>

\* start_streaming: nothing when the flag is set; otherwise the flag is
\* set and a new thread is created and started
StartStreaming ==
    /\ ctl.pc = "idle"
    /\ ~stream_active
    /\ \E w \in Workers :
        /\ workers[w].pc = "unborn"
        /\ \A v \in Workers : workers[v].pc = "unborn" => w <= v
        /\ stream_active' = TRUE
        /\ stream_thread' = w
        /\ workers' = [workers EXCEPT ![w].pc = "loop"]
    /\ UNCHANGED <<now, frame_queue, ctl, prod, published, streamRest>>

\* whether self.stream_thread.is_alive()
IsAlive(t) == t # 0 /\ workers[t].pc # "dead"

\* stop_streaming: the flag is cleared; join(timeout=2) follows when the
\* thread created last is alive
StopStreaming ==
    /\ ctl.pc = "idle"
    /\ stream_active
    /\ stream_active' = FALSE
    /\ ctl' = IF IsAlive(stream_thread)
              THEN [pc |-> "join", wake |-> now + JoinTimeout]
              ELSE ctl
    /\ UNCHANGED <<now, frame_queue, stream_thread, workers, prod, published,
                   streamRest>>

\* stop_streaming: join returns, the thread has ended or the timeout is over
JoinReturn ==
    /\ ctl.pc = "join"
    /\ ~IsAlive(stream_thread) \/ now >= ctl.wake
    /\ ctl' = [pc |-> "idle", wake |-> 0]
    /\ UNCHANGED <<now, stream_active, frame_queue, stream_thread, workers,
                   prod, published, streamRest>>

\* queue_frame: the next captured frame arrives; False is returned when
\* streaming is off
QueueFrame ==
    /\ prod.pc = "idle"
    /\ prod.frame < MaxFrames
    /\ prod' = [pc |-> IF stream_active THEN "full" ELSE "idle",
                frame |-> prod.frame + 1]
    /\ UNCHANGED <<now, stream_active, frame_queue, stream_thread, workers,
                   ctl, published, streamRest>>

\* queue_frame: if self.frame_queue.full()
QueueFrameFull ==
    /\ prod.pc = "full"
    /\ prod' = [prod EXCEPT !.pc = IF Len(frame_queue) >= QueueCapacity
                                   THEN "drop" ELSE "put"]
    /\ UNCHANGED <<now, stream_active, frame_queue, stream_thread, workers,
                   ctl, published, streamRest>>

\* queue_frame: get_nowait() takes the oldest frame away; queue.Empty is
\* passed over
QueueFrameDrop ==
    /\ prod.pc = "drop"
    /\ frame_queue' = IF frame_queue = <<>> THEN frame_queue
                      ELSE Tail(frame_queue)
    /\ prod' = [prod EXCEPT !.pc = "put"]
    /\ UNCHANGED <<now, stream_active, stream_thread, workers, ctl,
                   published, streamRest>>

\* queue_frame: self.frame_queue.put(frame_bytes), which waits while the
\* queue is full
QueueFramePut ==
    /\ prod.pc = "put"
    /\ Len(frame_queue) < QueueCapacity
    /\ frame_queue' = Append(frame_queue, prod.frame)
    /\ prod' = [prod EXCEPT !.pc = "idle"]
    /\ UNCHANGED <<now, stream_active, stream_thread, workers, ctl,
                   published, streamRest>>

\* _stream_frames: `while self.stream_active` and the test of
\* frame_queue.empty(); the thread ends when the flag is clear, and it polls
\* again while the queue is empty
StreamLoop(w) ==
    /\ workers[w].pc = "loop"
    /\ stream_active => frame_queue # <<>>
    /\ workers' = [workers EXCEPT ![w].pc = IF stream_active THEN "get"
                                            ELSE "dead"]
    /\ UNCHANGED <<now, stream_active, frame_queue, stream_thread, ctl, prod,
                   published, streamRest>>

\* _stream_frames: the end of an iteration with f failures counted:
\* `if failures >= 5: time.sleep(5)`
AfterAttempt(wk, f) ==
    IF f >= StreamMaxFailures
    THEN [pc |-> "pause", failures |-> f, frame |-> 0,
          wake |-> now + StreamPause]
    ELSE [pc |-> "loop", failures |-> f, frame |-> 0, wake |-> 0]

\* _stream_frames: frame_queue.get_nowait(); queue.Empty is caught by
\* `except Exception` and counted
StreamGet(w) ==
    /\ workers[w].pc = "get"
    /\ IF frame_queue = <<>>
       THEN /\ workers' = [workers EXCEPT
                    ![w] = AfterAttempt(@, @.failures + 1)]
            /\ UNCHANGED frame_queue
       ELSE /\ workers' = [workers EXCEPT ![w].pc = "post",
                                          ![w].frame = Head(frame_queue)]
            /\ frame_queue' = Tail(frame_queue)
    /\ UNCHANGED <<now, stream_active, stream_thread, ctl, prod, published,
                   streamRest>>

PostOutcomes == {"200", "non200", "timeout", "error"}

\* AfterAttempt with a pause that begins one failure late
AfterAttempt_Late(wk, f) ==
    IF f > StreamMaxFailures
    THEN [pc |-> "pause", failures |-> f, frame |-> 0,
          wake |-> now + StreamPause]
    ELSE [pc |-> "loop", failures |-> f, frame |-> 0, wake |-> 0]

\* StreamPost with the late pause
StreamPost_Late(w) ==
    /\ workers[w].pc = "post"
    /\ \E kind \in PostOutcomes :
        /\ workers' = [workers EXCEPT
               ![w] = AfterAttempt_Late(@, IF kind = "200" THEN 0
                                           ELSE @.failures + 1)]
        /\ published' = IF kind = "200" THEN workers[w].frame ELSE published
    /\ UNCHANGED <<now, stream_active, frame_queue, stream_thread, ctl, prod,
                   streamRest>>

\* _stream_frames: requests.post answers 200, answers another status, times
\* out or raises; failures is cleared or counted, and the pause begins at 5
StreamPost(w) ==
    /\ workers[w].pc = "post"
    /\ \E kind \in PostOutcomes :
        /\ workers' = [workers EXCEPT
               ![w] = AfterAttempt(@, IF kind = "200" THEN 0
                                      ELSE @.failures + 1)]
        /\ published' = IF kind = "200" THEN workers[w].frame ELSE published
    /\ UNCHANGED <<now, stream_active, frame_queue, stream_thread, ctl, prod,
                   streamRest>>

\* _stream_frames: the pause is over, failures = 0
StreamResume(w) ==
    /\ workers[w].pc = "pause"
    /\ now >= workers[w].wake
    /\ workers' = [workers EXCEPT ![w].pc = "loop", ![w].failures = 0,
                                  ![w].wake = 0]
    /\ UNCHANGED <<now, stream_active, frame_queue, stream_thread, ctl, prod,
                   published, streamRest>>

\* ----------------------------------------------------------- recognizer
recogRest == <<now, streamVars, caller, cameraVars, syncVars, ds, latest_frame,
               loopVars, callVars, doorVars, apipc, reqVars>>

Raised ==
    [status |-> "raised", matched |-> FALSE, face |-> 0, entry |-> 0,
     confidence |-> 0, reason |-> "exception"]
Returned(matched, face, entry, confidence, reason) ==
    [status |-> "returned", matched |-> matched, face |-> face,
     entry |-> entry, confidence |-> confidence, reason |-> reason]

\* recognize: recognized = False, best_match = None, best_confidence = 0
NoMatch == [face |-> 0, entry |-> 0, confidence |-> 0]
NoBest == [recognized |-> FALSE, best_match |-> NoMatch,
           best_confidence |-> 0, raised |-> FALSE]

\* whether the entries of the gallery have the key 'path': those of
\* build_gallery_from_device have it, those of load_embeddings_from_backend
\* have 'person_name' and 'embedding' only
HasPath(m) == m = "recognizer.py"

\* recognize: `for entry in self.embeddings` from entry i on, for the face
\* numbered fi with similarities sims.  best_confidence is assigned before
\* the dictionary of best_match is built, and entry['path'] raises KeyError
\* when the key is missing: the exception leaves the loop over the entries
RECURSIVE ScanEntries(_, _, _, _, _, _, _)
ScanEntries(m, t, gal, sims, fi, i, acc) ==
    IF i > Len(gal) THEN acc
    ELSE LET cos_sim == sims[gal[i]] IN
         IF cos_sim > t /\ cos_sim > acc.best_confidence
         THEN IF HasPath(m)
              THEN ScanEntries(m, t, gal, sims, fi, i + 1,
                       [recognized |-> TRUE,
                        best_match |-> [face |-> fi, entry |-> gal[i],
                                        confidence |-> cos_sim],
                        best_confidence |-> cos_sim,
                        raised |-> FALSE])
              ELSE [acc EXCEPT !.best_confidence = cos_sim]
         ELSE ScanEntries(m, t, gal, sims, fi, i + 1, acc)

\* recognize: `for face in faces` from face fi on.  recognizer.py resizes
\* the crop before it tests its size and outside the try block, and
\* cv2.resize raises on an empty crop; res_recognizer.py skips an empty
\* crop.  What DeepFace.represent or the comparison raises is caught and
\* the next face is taken.
RECURSIVE ScanFaces(_, _, _, _, _, _)
ScanFaces(m, t, gal, faces, fi, acc) ==
    IF fi > Len(faces) THEN acc
    ELSE LET face == faces[fi] IN
         IF face.kind = "crop_empty"
         THEN IF m = "recognizer.py"
              THEN [acc EXCEPT !.raised = TRUE]
              ELSE ScanFaces(m, t, gal, faces, fi + 1, acc)
         ELSE IF face.kind = "embed_raises"
         THEN ScanFaces(m, t, gal, faces, fi + 1, acc)
         ELSE ScanFaces(m, t, gal, faces, fi + 1,
                        ScanEntries(m, t, gal, face.sims, fi, 1, acc))

\* recognize(frame) of class m with threshold t and gallery gal;
\* face_detector.detect is called outside every try block
Recognize(m, t, gal, f) ==
    IF f.detect = "raises" THEN Raised
    ELSE IF f.faces = <<>>
    THEN Returned(FALSE, 0, 0, 0, "no_faces_detected")
    ELSE LET acc == ScanFaces(m, t, gal, f.faces, 1, NoBest) IN
         IF acc.raised THEN Raised
         ELSE IF acc.recognized /\ acc.best_match # NoMatch
         THEN Returned(TRUE, acc.best_match.face, acc.best_match.entry,
                       acc.best_match.confidence, "match")
         ELSE Returned(FALSE, 0, 0, 0, "no_match")

\* a thread calls recognize(frame); the gallery it compares with is the
\* list self.embeddings refers to at that time
RecognizeCall ==
    /\ result = NoResult
    /\ result' = Recognize(impl, threshold, embeddings, frame)
    /\ seen' = embeddings
    /\ UNCHANGED <<impl, threshold, embeddings, frame, refresh, recogRest>>

\* build_gallery_from_device, load_embeddings_from_backend:
\* self.embeddings = [] once the listing has been fetched
RefreshBegin ==
    /\ refresh.pc = "idle"
    /\ embeddings' = <<>>
    /\ refresh' = [pc |-> "build", next |-> 1]
    /\ UNCHANGED <<impl, threshold, frame, result, seen, recogRest>>

\* RefreshFetchFails with the gallery cleared before the fetch
RefreshFetchFails_Clears ==
    /\ refresh.pc = "idle"
    /\ embeddings' = <<>>
    /\ refresh' = [pc |-> "failed", next |-> 0]
    /\ UNCHANGED <<impl, threshold, frame, result, seen, recogRest>>

\* the same: the fetch raises (requests.get, raise_for_status or resp.json
\* in load_embeddings_from_backend, the storage listing in
\* build_gallery_from_device), which happens before self.embeddings = []
\* and inside the try block of the function
RefreshFetchFails ==
    /\ refresh.pc = "idle"
    /\ refresh' = [pc |-> "failed", next |-> 0]
    /\ UNCHANGED <<impl, threshold, embeddings, frame, result, seen,
                   recogRest>>

\* the same: `except Exception` logs the failure and the function returns
RefreshCaught ==
    /\ refresh.pc = "failed"
    /\ refresh' = [pc |-> "idle", next |-> 0]
    /\ UNCHANGED <<impl, threshold, embeddings, frame, result, seen,
                   recogRest>>

\* the same: the next image is downloaded and embedded and its entry is
\* appended to self.embeddings
RefreshAppend ==
    /\ refresh.pc = "build"
    /\ refresh.next <= Len(NewGallery)
    /\ embeddings' = Append(embeddings, NewGallery[refresh.next])
    /\ refresh' = [refresh EXCEPT !.next = @ + 1]
    /\ UNCHANGED <<impl, threshold, frame, result, seen, recogRest>>

\* the same: the loop over the listing is over
RefreshEnd ==
    /\ refresh.pc = "build"
    /\ refresh.next > Len(NewGallery)
    /\ refresh' = [pc |-> "idle", next |-> 0]
    /\ UNCHANGED <<impl, threshold, embeddings, frame, result, seen,
                   recogRest>>

\* the handlers' calls into hardware.py (relay.open, buzzer.beep,
\* relay.close) sit in no try block, neither in hardware.py nor in the
\* handlers nor in loop(): an exception raised by one of them leaves loop(),
\* the target of the thread, which ends with processing as it was
HardwareCalls == {"g_open", "g_state", "g_dwell", "d_close", "d_state"}

LoopHardwareFault ==
    /\ pc \in HardwareCalls
    /\ pc = "g_dwell" => now >= wake
    /\ pc' = "dead"
    /\ UNCHANGED <<auxVars, syncVars, ds, now, latest_frame, cycleVars, callVars,
                   doorVars, apipc, reqVars>>

\* ---------------------------------------------------------- specification
LoopStep ==
    \/ LoopStartCycle \/ LoopPollButton
    \/ LoopGrantNotify \/ LoopGrantOpen \/ LoopGrantUnlock
    \/ LoopGrantClose \/ LoopGrantRelock
    \/ LoopDenyClose \/ LoopDenyLock \/ LoopDenyDone
    \/ LoopButton \/ LoopCallSet \/ LoopCallPlace

Next ==
    \/ Tick
    \/ Capture
    \/ LoopStartCycle \/ LoopPollButton
    \/ LoopGrantNotify \/ LoopGrantOpen \/ LoopGrantUnlock
    \/ LoopGrantClose \/ LoopGrantRelock
    \/ LoopDenyClose \/ LoopDenyLock \/ LoopDenyDone
    \/ LoopButton \/ LoopCallSet \/ LoopCallPlace
    \/ ApiCallCheck \/ ApiCallSet \/ ApiCallPlace
    \/ DoorControlReceive \/ DoorControlState \/ DoorControlRelay

Spec == Init /\ [][Next]_vars

\* the camera loop and the remote command endpoint, with the scheduler
\* running the loop thread and the clock advancing
NextLoop ==
    \/ Tick
    \/ Capture
    \/ LoopStartCycle \/ LoopPollButton
    \/ LoopGrantNotify \/ LoopGrantOpen \/ LoopGrantUnlock
    \/ LoopGrantClose \/ LoopGrantRelock
    \/ LoopDenyClose \/ LoopDenyLock \/ LoopDenyDone
    \/ LoopButton \/ LoopCallSet \/ LoopCallPlace
    \/ DoorControlReceive \/ DoorControlState \/ DoorControlRelay

FairLoopSpec ==
    Init /\ [][NextLoop]_vars /\ WF_vars(Tick) /\ WF_vars(LoopStep)

\* the same with the capture thread delivering new frames for ever
FairCameraSpec ==
    /\ Init /\ [][NextLoop]_vars
    /\ WF_vars(Tick) /\ WF_vars(LoopStep) /\ WF_vars(Capture)

\* the camera loop with hardware calls that may raise
NextFault ==
    \/ NextLoop
    \/ LoopHardwareFault

SpecFault == Init /\ [][NextFault]_vars

\* the camera loop beside the call endpoint and a caller of _end_call
NextCall ==
    \/ Tick
    \/ Capture
    \/ LoopStep
    \/ ApiCallCheck \/ ApiCallSet \/ ApiCallPlace
    \/ EndCall

SpecCall == Init /\ [][NextCall]_vars

\* the request methods of APIClient called beside the synchronizer thread
\* and a publisher thread whose uploads have been failing
NextBackend ==
    \/ StreamTick
    \/ MonitorPoll \/ MonitorAcquire \/ MonitorWrite
    \/ \E w \in Workers :
        StreamLoop(w) \/ StreamGet(w) \/ StreamPost(w) \/ StreamResume(w)
    \/ BackendCall
    \/ UpdateDoorState \/ UpdateAcquire \/ UpdateWrite \/ UpdateReturn

SpecBackend == InitBackend /\ [][NextBackend]_vars

\* the capture thread of camera.py beside loop() reading from it
NextCamera ==
    \/ CamGrab \/ CamStore \/ CamSleep
    \/ ReaderAcquire \/ ReaderCopy \/ ReaderNap
    \/ ReaderWork \/ ReaderCycleDone

SpecCamera == Init /\ [][NextCamera]_vars

\* the remote command endpoint and the call endpoint on their own
NextRemote ==
    \/ Tick
    \/ ApiCallCheck \/ ApiCallSet \/ ApiCallPlace
    \/ DoorControlReceive \/ DoorControlState \/ DoorControlRelay

SpecRemote == InitRemote /\ [][NextRemote]_vars

\* the synchronizer thread beside the remote command endpoint
NextSync ==
    \/ SyncTick
    \/ MonitorPoll \/ MonitorAcquire \/ MonitorWrite
    \/ DoorControlReceive \/ DoorControlState \/ DoorControlRelay

SpecSync == Init /\ [][NextSync]_vars

\* DeviceService's main loop beside the synchronizer thread
NextGated ==
    \/ Tick
    \/ MonitorPoll \/ MonitorAcquire \/ MonitorWrite
    \/ SvcStartCycle \/ SvcUpload \/ SvcReadDoorState
    \/ SvcDeny \/ SvcGrant \/ SvcDenyDone \/ SvcGrantClose
    \/ SvcUnrecognized \/ SvcUnrecognizedDone \/ SvcCooldownDone

SpecGated == Init /\ [][NextGated]_vars

\* the publisher threads working off a backlog beside the thread that
\* stops and starts streaming
NextStream ==
    \/ StreamTick
    \/ StartStreaming \/ StopStreaming \/ JoinReturn
    \/ \E w \in Workers :
        StreamLoop(w) \/ StreamGet(w) \/ StreamPost(w) \/ StreamResume(w)

SpecStream == InitStream /\ [][NextStream]_vars

\* one publisher thread beside the thread that queues frames
NextPublisher ==
    \/ StreamTick
    \/ QueueFrame \/ QueueFrameFull \/ QueueFrameDrop \/ QueueFramePut
    \/ \E w \in Workers :
        StreamLoop(w) \/ StreamGet(w) \/ StreamPost(w) \/ StreamResume(w)

SpecPublisher == InitPublisher /\ [][NextPublisher]_vars

\* a recognize call beside a refresh of the gallery
NextRecognize ==
    \/ RecognizeCall
    \/ RefreshBegin \/ RefreshAppend \/ RefreshEnd
    \/ RefreshFetchFails \/ RefreshCaught

SpecRecognize == InitRecognize /\ [][NextRecognize]_vars

\* ================================================================== claims
InHandler ==
    pc \in {"g_upload", "g_open", "g_state", "g_dwell", "g_relock",
            "d_close", "d_state", "d_hold"}

\* C1: at most one recognition cycle is in flight at any time: the count of
\* cycles started and not finished never exceeds one, the guard is set
\* exactly while a cycle is in flight, and a grant/deny handler only ever
\* runs under the guard.
C1_OneCycleInFlight ==
    /\ cycles \in {0, 1}
    /\ (cycles = 1) <=> processing
    /\ InHandler => processing

\* a grant cycle is in flight while a newer frame has arrived, a remote
\* command has been answered and a call has been accepted
C1_Witness ==
    /\ pc = "g_dwell"
    /\ processing
    /\ latest_frame = "unknown"
    /\ req.pc = "done"
    /\ call_in_progress

\* the stamp a door-state write carries: a remote command carries its
\* payload timestamp, a handler of the camera loop the current_time of its
\* cycle (kept in last_recognition_time once the cycle is over)
LocalStamp ==
    IF pc \in {"g_dwell", "g_relock", "d_hold"} THEN current_time
    ELSE last_recognition_time

lastChangedAt ==
    CASE lastWriter = "init" -> 0
      [] lastWriter = "local" -> LocalStamp
      [] lastWriter = "unlock" -> UnlockTok.ts
      [] lastWriter = "lock" -> LockTok.ts
      [] OTHER -> 0

\* C2: a door-state write older than the current state's lastChangedAt is
\* rejected, so lastChangedAt never decreases.
C2_StaleWriteRejected == [][lastChangedAt' >= lastChangedAt]_vars

\* a request is taken up by door_control in this step
Received == req.pc \in {"idle", "done"} /\ req' # req

\* C3: a command is applied only if its timestamp is within 10 s of now;
\* a ciphertext delivered outside that window is answered 403 and changes
\* neither the door state nor the relay.
C3_ReplayWindow ==
    [][Received =>
        /\ req'.pc = "w_state" => Abs(now - req'.body.ts) <= 10
        /\ (req'.body \in Ciphertexts /\ req'.body.kind = "ok"
                /\ Abs(now - req'.body.ts) > 10)
           => /\ req'.pc = "done"
              /\ req'.code = 403
              /\ UNCHANGED <<local_door_state, relay>>]_vars

\* a ciphertext that was applied once has been delivered again after its
\* window and was answered 403
C3_Witness ==
    /\ LockTok \in consumed
    /\ req.pc = "done"
    /\ req.body = LockTok
    /\ req.code = 403

\* C4: a remote command is single-use: a ciphertext that has been applied
\* is never applied again.
C4_SingleUse ==
    [][(Received /\ req'.pc = "w_state") => req'.body \notin consumed]_vars

\* a body that must fail authentication at time t: forged, expired,
\* malformed or replayed
AuthFailure(b, t) ==
    /\ b \in Ciphertexts
    /\ \/ ~b.authentic
       \/ b.issued + 10 < t
       \/ b.kind # "ok"
       \/ Abs(t - b.ts) > 10
       \/ b \in consumed

\* C5: a request that is not accepted leaves the door state and the relay
\* unchanged, and every authentication failure is answered 403.
C5_RejectedHarmless403 ==
    [][Received =>
        /\ req'.pc = "done" => UNCHANGED <<local_door_state, relay>>
        /\ AuthFailure(req'.body, now)
           => (req'.pc = "done" /\ req'.code = 403)]_vars

\* C6: a decrypted payload that is malformed is answered 403, never with an
\* unhandled exception.
C6_MalformedIs403 ==
    [][(Received /\ req'.body \in Ciphertexts /\ req'.body.authentic
          /\ req'.body.kind # "ok")
       => (req'.pc = "done" /\ req'.code = 403)]_vars

\* an authentic ciphertext of a well-formed command inside both windows
Acceptable(b, t) ==
    /\ b \in Ciphertexts
    /\ b.authentic
    /\ b.kind = "ok"
    /\ t <= b.issued + 10
    /\ Abs(t - b.ts) <= 10

\* C7: an accepted unlock sets the door state to unlocked, opens the relay
\* and answers unlocked; an accepted lock sets it to locked, closes the
\* relay and answers locked.
C7_AppliedCommand ==
    [][/\ (Received /\ Acceptable(req'.body, now)
             /\ req'.body.action \in {"unlock", "lock"})
          => req'.pc = "w_state"
       /\ (req.pc = "w_state" /\ req'.pc = "w_relay")
          => /\ req.body.action = "unlock" => local_door_state' = "unlocked"
             /\ req.body.action = "lock" => local_door_state' = "locked"
       /\ (req.pc = "w_relay" /\ req'.pc = "done")
          => /\ req'.code = 200
             /\ req.body.action = "unlock"
                => (relay' = "open" /\ req'.status = "unlocked")
             /\ req.body.action = "lock"
                => (relay' = "closed" /\ req'.status = "locked")]_vars

\* an unlock has been applied and answered
C7_Witness ==
    /\ req.pc = "done"
    /\ req.body = UnlockTok
    /\ req.code = 200
    /\ req.status = "unlocked"
    /\ relay = "open"
    /\ local_door_state = "unlocked"

\* C8 as stated: an authenticated, in-window command whose action is call
\* is applied, it places a call and is not rejected as an invalid action.
C8_CallApplied ==
    [][(Received /\ Acceptable(req'.body, now) /\ req'.body.action = "call")
       => (req'.code # 400 /\ call_in_progress')]_vars

\* C8 amended: door_control does not apply a call command: it answers 400
\* (invalid action), places no call and leaves the call session, the door
\* state and the relay unchanged.
C8_CallRejected ==
    [][(Received /\ Acceptable(req'.body, now) /\ req'.body.action = "call")
       => /\ req'.pc = "done"
          /\ req'.code = 400
          /\ req'.status = "invalid action"
          /\ UNCHANGED <<call_in_progress, local_door_state, relay>>]_vars

\* an in-window call command was answered 400
C8_Witness ==
    /\ req.pc = "done"
    /\ req.body = CallTok
    /\ req.code = 400
    /\ now <= CallTok.ts + 10

C10_CooldownAfterCompletion ==
    [][(cycles' > cycles /\ lastCompletedAt >= 0)
       => now - lastCompletedAt >= 3]_vars

\* C11: at most one call is placed for a call session: no two threads are
\* between call_in_progress = True and linphone.call() at the same time.
C11_OneCallPlaced == ~(pc = "call_place" /\ apipc = "call_place")

\* linphone.call() is invoked in this step
Placing ==
    \/ pc = "call_place" /\ pc' = "read"
    \/ apipc = "call_place" /\ apipc' = "idle"

\* C12: call requests within the 2 s debounce window of a call attempt
\* produce no further attempt, whether that attempt succeeded or failed.
C12_OneAttemptPerWindow ==
    [][Placing => attemptAge >= button_debounce_time]_vars

\* C13: every accepted call eventually ends: once call_in_progress is true
\* it eventually becomes false again.
C13_CallEnds == call_in_progress ~> ~call_in_progress

\* C14: each granted cycle sends exactly one granted notification, also
\* when the image upload fails.
C14_OneGrantedNotification ==
    [][(pc = "g_relock" /\ pc' = "button") => sent = 1]_vars

\* C15: each denied cycle for an unknown face sends exactly one
\* unrecognized notification.
C15_OneUnrecognizedNotification ==
    [][(pc = "d_hold" /\ pc' = "button") => sent = 1]_vars

InDenied == pc \in {"d_close", "d_state", "d_hold"}

\* C16 as stated: a relay that is closed in a denied cycle stays closed
\* throughout the cycle and when the loop returns to idle.
C16_RelayStaysClosed ==
    [][(InDenied /\ relay = "closed") => relay' = "closed"]_vars

\* C16 amended: the denied cycle itself never opens the relay: a relay that
\* is closed in a denied cycle stays closed throughout the cycle and when
\* the loop returns to idle, unless door_control applies a remote unlock
\* during the cycle.
C16_DeniedNeverOpens ==
    [][(InDenied /\ relay = "closed" /\ relay' = "open")
       => /\ req.pc = "w_relay"
          /\ req.body.action = "unlock"
          /\ req'.pc = "done"
          /\ pc' = pc]_vars

\* the hold of a denied cycle is over and the relay is closed
C16_Witness ==
    /\ pc = "d_hold"
    /\ now >= wake
    /\ relay = "closed"

\* C18: the door state is one cell behind one lock: every write of a door
\* state is made by a thread that holds door_state_lock, and the state a
\* remote command applies is the state get_door_state() returns afterwards.
C18_OneCellOneLock ==
    [][/\ door_state' # door_state => door_state_lock = "monitor"
       /\ local_door_state' # local_door_state
          => door_state_lock = "door_control"
       /\ (req.pc = "w_state" /\ req'.pc = "w_relay")
          => door_state' = DoorStateFor(req.body.action)]_vars

\* C19: a poll answered 200 with state s leaves door_state = s, a poll that
\* is not answered 200 leaves door_state as it was, and door_state changes
\* in no other step than the synchronizer's write.
C19_PollApplied ==
    [][/\ (mon.pc = "write" /\ mon'.pc = "sleep" /\ mon.answer.state # None)
          => door_state' = mon.answer.state
       /\ (mon.pc = "sleep" /\ mon'.answer.kind # "200")
          => door_state' = door_state
       /\ door_state' # door_state => (mon.pc = "write" /\ mon'.pc = "sleep")
      ]_vars

\* a poll answered 200 unlocked has been applied, and a later poll has failed
C19_Witness ==
    /\ door_state = "unlocked"
    /\ mon.pc = "sleep"
    /\ mon.answer.kind \in {"non200", "timeout", "error"}

\* the sleep an iteration of the synchronizer ends with
Interval == mon'.wake - now

\* C20: once 5 polls in a row have failed the synchronizer sleeps 10 s
\* after every poll until a poll succeeds; a successful poll clears the
\* failure count and is followed by the normal 3 s sleep.
C20_BackoffUntilSuccess ==
    [][/\ (mon.pc = "sleep" /\ mon' # mon /\ failStreak' >= max_failures)
          => Interval = 10
       /\ (mon.pc = "write" /\ mon'.pc = "sleep")
          => (Interval = 3 /\ mon'.failures = 0)]_vars

\* C17 helper: the notification sent in this step
Notifies(status) == ds'.notified = Append(ds.notified, status)

\* C17: under the gated policy a matched person is granted (relay opened,
\* recognized_granted sent) only if the door state read in that cycle is
\* unlocked; if it reads locked the relay is not opened at any point of the
\* cycle and recognized_denied is sent.
C17_GatedGrant ==
    [][/\ (ds.pc = "r_read" /\ ds'.pc = "r_gate")
          => ds'.door_state = door_state
       /\ (ds.pc = "r_gate" /\ ds'.pc # "r_gate")
          => IF ds.door_state = "unlocked"
             THEN ds'.relay = "open" /\ Notifies("recognized_granted")
             ELSE ds'.relay = ds.relay /\ Notifies("recognized_denied")
       /\ (ds.relay = "closed" /\ ds'.relay = "open")
          => (ds.pc = "r_gate" /\ ds.door_state = "unlocked")
       /\ ds.pc = "r_denied" => ds'.relay = ds.relay
       /\ ds'.notified # ds.notified
          => (ds.pc \in {"r_gate", "u_upload"} \/ ds'.notified = <<>>)]_vars

\* a matched person has been let in on a door state read as unlocked, after
\* the synchronizer applied a poll answered unlocked
C17_Witness ==
    /\ ds.pc = "r_granted"
    /\ ds.relay = "open"
    /\ ds.door_state = "unlocked"
    /\ ds.notified = <<"recognized_granted">>
    /\ mon.answer.kind = "200"

\* C24: the loop thread never waits on the backend: on a grant no time passes
\* between the verdict and the opening of the relay while the capture upload
\* and the notification POST are made (pc = "g_upload" is the loop thread
\* inside capture_and_upload and send_notification, each a blocking
\* requests.post with timeout=10).
C24_NoBackendWait == [][pc = "g_upload" => now' = now]_vars

\* C25: whatever the upload of the capture returned, the granted cycle posts
\* its notification.
C25_NotifiedDespiteUpload ==
    [][(pc = "g_upload" /\ pc' = "g_open") => sent' = 1]_vars

\* C30: a hardware fault during a cycle does not end the camera loop.
C30_LoopSurvivesFault == pc # "dead"

\* C21 helpers: thread w ends a send attempt in this step, with a 200
\* (the frame becomes the published one) or with a failure (another status,
\* a timeout, an exception, queue.Empty among them)
Succeeded(w) ==
    /\ workers[w].pc = "post" /\ workers'[w].pc # "post"
    /\ published' = workers[w].frame
Failed(w) ==
    \/ workers[w].pc = "post" /\ workers'[w].pc # "post"
       /\ published' = published
    \/ workers[w].pc = "get" /\ workers'[w].pc \notin {"get", "post"}
PauseBegins(w) == workers[w].pc # "pause" /\ workers'[w].pc = "pause"

\* C21: the publisher begins its 5 s pause exactly when a send attempt fails
\* after four failed ones in a row; a success clears the count; the pause
\* ends by itself, 5 s after it began at the earliest, with the count at
\* zero and the thread back in its loop.
C21_PauseAfterFiveFailures ==
    [][\A w \in Workers :
        /\ Succeeded(w)
           => (workers'[w].failures = 0 /\ workers'[w].pc = "loop")
        /\ Failed(w) => workers'[w].failures = workers[w].failures + 1
        /\ PauseBegins(w)
           <=> (Failed(w) /\ workers[w].failures = StreamMaxFailures - 1)
        /\ PauseBegins(w) => workers'[w].wake = now + StreamPause
        /\ (workers[w].pc = "pause" /\ workers'[w].pc # "pause")
           => /\ workers'[w].pc = "loop"
              /\ workers'[w].failures = 0
              /\ now >= workers[w].wake
        /\ workers[w].pc # "pause"
           => workers[w].failures < StreamMaxFailures]_vars

\* a frame was published, five sends in a row failed after it, the pause has
\* run its 5 s
C21_Witness ==
    \E w \in Workers :
        /\ workers[w].pc = "pause"
        /\ workers[w].failures = StreamMaxFailures
        /\ published > 0
        /\ now >= workers[w].wake

\* C22 helpers: the queue in this step
QueueDiscipline ==
    /\ Len(frame_queue') <= QueueCapacity
    /\ prod.pc = "put" => Len(frame_queue) < QueueCapacity
    /\ (prod.pc = "full" /\ prod'.pc # "full"
        /\ Len(frame_queue) = QueueCapacity)
       => prod'.pc = "drop"
    /\ (prod.pc = "drop" /\ prod'.pc = "put" /\ frame_queue # <<>>)
       => frame_queue' = Tail(frame_queue)
    /\ (prod.pc = "put" /\ prod'.pc = "idle")
       => frame_queue' = Append(frame_queue, prod.frame)
    /\ \A i \in 1..(Len(frame_queue) - 1) :
        frame_queue[i] < frame_queue[i + 1]
PublishedInOrder == published' # published => published' > published

\* C22: queue_frame never waits and the queue never holds more than 10
\* frames; a frame that arrives at a full queue takes the place of the
\* oldest one; frames are published in the order of their capture.
C22_BoundedQueueInOrder == [][QueueDiscipline /\ PublishedInOrder]_vars

\* C23 helper: thread w has passed `while self.stream_active` with the flag
\* set, or is about to
Draining(w) ==
    \/ workers[w].pc = "get"
    \/ workers[w].pc = "loop" /\ stream_active

\* C23: at most one publisher thread drains the queue.
C23_OneDrainer == Cardinality({w \in Workers : Draining(w)}) <= 1

\* C26 to C28 helpers: the (face, gallery position) pairs recognize compares
\* for the frame, their similarities, the best similarity
Pairs ==
    {p \in (1..Len(frame.faces)) \X (1..Len(seen)) :
        frame.faces[p[1]].kind = "ok"}
Sim(p) == frame.faces[p[1]].sims[seen[p[2]]]
Best(ps) == CHOOSE s \in {Sim(p) : p \in ps} : \A q \in ps : Sim(q) <= s
Before(p, q) == p[1] < q[1] \/ (p[1] = q[1] /\ p[2] < q[2])

\* C26: for every threshold and every best similarity, recognize reports a
\* match exactly when the best similarity is greater than the threshold.
C26_StrictThreshold ==
    (result # NoResult /\ result.status = "returned" /\ Pairs # {})
    => (result.matched <=> Best(Pairs) > threshold)

C28_NeverRaises ==
    result # NoResult
    => /\ result.status = "returned"
       /\ (frame.detect = "raises"
           \/ (frame.faces # <<>>
               /\ \A i \in 1..Len(frame.faces) : frame.faces[i].kind # "ok"))
          => (~result.matched /\ result.reason = "no_match")

\* C29: a recognize call that runs while the gallery is refreshed compares
\* with the complete old gallery or the complete new one.
C29_WholeGallery ==
    (result.status = "returned" /\ frame.faces # <<>>)
    => seen \in {OldGallery, NewGallery}

\* C37: a refresh whose fetch fails leaves the gallery as it was and returns.
C37_FailedFetchKeepsGallery ==
    [][refresh'.pc = "failed" \/ refresh.pc = "failed"
       => /\ embeddings' = embeddings
          /\ refresh'.pc \in {"failed", "idle"}]_vars

\* the fetch of a refresh has failed after an earlier refresh built the new
\* gallery, which is still in place
C37_Witness == refresh.pc = "failed" /\ embeddings = NewGallery

\* C38: with the gallery of load_embeddings_from_backend, recognize returns
\* a match whenever a face's similarity to an entry exceeds the threshold.
C38_BackendGalleryMatches ==
    (impl = "res_recognizer.py" /\ result.status = "returned"
     /\ \E p \in Pairs : Sim(p) > threshold)
    => (result.matched /\ result.entry \in {seen[p[2]] : p \in Pairs})

\* C35: in DeviceService the relay is opened by a grant only while the
\* shared door state api_client.door_state is unlocked.
C35_OpenOnlyWhileUnlocked ==
    [][(ds.relay = "closed" /\ ds'.relay = "open")
       => door_state = "unlocked"]_vars

\* C34: whenever no grant or deny handler and no door_control request is
\* in the middle of its execution, the relay is open exactly when
\* local_door_state is unlocked.
C34_RelayFollowsDoorState ==
    (~InHandler /\ req.pc \in {"idle", "done"})
    => (relay = "open" <=> local_door_state = "unlocked")

\* C33 helper: a step of the call session: a press or request taken up or
\* turned down, the flag set, the call placed or ended
CallStep ==
    \/ call_in_progress' # call_in_progress
    \/ pc \in {"button", "call_set", "call_place"} /\ pc' # pc
    \/ pc' = "call_set" /\ pc # pc'
    \/ apipc' # apipc

\* C33: a step of the call session leaves the door state, the relay and the
\* in-flight guard of the recognition cycle as they are.
C33_CallLeavesDoorAlone ==
    [][CallStep => UNCHANGED <<local_door_state, relay, processing>>]_vars

\* a request thread is placing a call while a grant cycle holds the door open
C33_Witness ==
    /\ apipc = "call_place"
    /\ call_in_progress
    /\ pc = "g_dwell"
    /\ processing
    /\ relay = "open"
    /\ local_door_state = "unlocked"

\* C31 helper: the call that just returned was answered with a failure
CallFailed ==
    /\ caller' # caller
    /\ caller'.pc = "idle"
    /\ caller'.answer.kind \in {"non200", "timeout", "error"}

\* C31: a request method whose request times out, fails to connect or is
\* answered with another status than 200 gives back False (None for the
\* upload) and nothing is raised to its caller; the synchronizer thread goes
\* back to sleep after a poll that failed, and a publisher thread goes on
\* with its loop, or into its pause, after an upload that failed.
C31_FailuresNeverFatal ==
    [][/\ caller'.result # "raised"
       /\ CallFailed =>
            caller'.result = IF caller'.fn = "upload_captured_face"
                             THEN "None" ELSE "False"
       /\ (mon.pc = "sleep" /\ mon' # mon /\ mon'.answer.kind # "200") =>
            (mon'.pc = "sleep" /\ mon'.wake <= now + PausedInterval)
       /\ \A w \in Workers :
            (workers[w].pc = "post" /\ workers'[w] # workers[w]) =>
                /\ workers'[w].pc \in {"loop", "pause"}
                /\ workers'[w].pc = "pause" =>
                       workers'[w].wake <= now + StreamPause]_vars

\* a request method has come back from a timeout while the synchronizer is
\* asleep after a poll that raised and the publisher is in its pause
C31_Witness ==
    /\ caller.answer.kind = "timeout"
    /\ caller.result \in {"False", "None"}
    /\ mon.answer.kind = "error"
    /\ mon.pc = "sleep"
    /\ workers[1].pc = "pause"

\* C36: update_door_state writes door_state only after a 200, the value
\* written is its argument, and it then returns True; after any other
\* answer, or an exception, it returns False without having written.
C36_UpdateOnlyOn200 ==
    [][(caller' # caller /\ caller'.fn = "update_door_state") =>
         /\ door_state' # door_state =>
              (caller.pc = "write" /\ caller.answer.kind = "200")
         /\ caller.pc = "write" => door_state' = caller.state
         /\ caller'.pc = "idle" =>
              caller'.result = IF caller'.answer.kind = "200"
                               THEN "True" ELSE "False"]_vars

\* update_door_state("unlocked") has returned True and door_state is
\* unlocked
C36_Witness ==
    /\ caller.pc = "idle"
    /\ caller.fn = "update_door_state"
    /\ caller.state = "unlocked"
    /\ caller.result = "True"
    /\ door_state = "unlocked"

\* C32 helper: the newest frame capture_loop has finished with: the last
\* one grabbed, or the one before it while the last is still on its way
\* into the slot
Newest == IF cam.pc = "store" THEN grabbed - 1 ELSE grabbed

\* C32: the slot always holds the newest captured frame (None, here 0,
\* before the first), whether or not the one before was read; Camera.read
\* returns what the slot holds and leaves it there; the lock is held by the
\* reader only inside read, never through a cycle, so capture_loop never
\* waits for a frame to be consumed.
C32_ReadReturnsNewest ==
    [][/\ slot = Newest
       /\ slot' = Newest'
       /\ (reader.pc = "copy" /\ reader'.pc # "copy") =>
            /\ reader'.frame = slot
            /\ slot' = slot
            /\ (reader'.pc = "nap") <=> (slot = 0)
       /\ frame_lock = "reader" => reader.pc = "copy"
       /\ cam.pc = "store" /\ cam'.pc # "store" => slot' = cam.frame]_vars

\* the first read after a cycle has returned the newest frame, and frames
\* captured during the cycle were never read
C32_Witness ==
    /\ reader.pc = "work"
    /\ reader.cycled
    /\ reader.frame = grabbed
    /\ reader.frame > reader.prev + 2

====
